---- MODULE Spec2Model ----
(***************************************************************************)
(* highdicom.sr.coding.CodedConcept: construction, accessors, equality,    *)
(* hashing, and the alternate constructors from_dataset and from_code,     *)
(* over a heap of pydicom Dataset objects.                                 *)
(*                                                                         *)
(* A Python value is a record [t, v]: a str (v the sequence of its         *)
(* characters), an int (v the number) or None.  An attribute of a Dataset  *)
(* is either such a value or Unset (the Dataset has no such element).      *)
(* An object reference is the index of the object in heap; two references  *)
(* to the same index are the same storage.                                 *)
(***************************************************************************)
EXTENDS Integers, Sequences, FiniteSets, TLC

VARIABLES heap, result

vars == <<heap, result>>

(* ------------------------------ bounds -------------------------------- *)

\* most objects alive at once
MaxObjects == 2

\* input strings are drawn with lengths within Margin of each length limit
Margin == 1

(* ------------------------- program constants -------------------------- *)

\* `if len(value) > 16`
MaxCodeValueLen == 16

\* `if len(meaning) > 64`
MaxMeaningLen == 64

(* --------------------------- Python values ---------------------------- *)

S(s) == [t |-> "str", v |-> s]

I(n) == [t |-> "int", v |-> n]

None == [t |-> "none", v |-> <<>>]

Unset == [t |-> "unset", v |-> <<>>]

Rep(c, n) == [i \in 1..n |-> c]

DigitChars == <<"0", "1", "2", "3", "4", "5", "6", "7", "8", "9">>

RECURSIVE Digits(_)
Digits(n) == IF n < 10 THEN <<DigitChars[n + 1]>>
             ELSE Append(Digits(n \div 10), DigitChars[(n % 10) + 1])

\* str(x)
PyStr(x) == CASE x.t = "str" -> x.v
              [] x.t = "int" -> Digits(x.v)
              [] OTHER -> <<"N", "o", "n", "e">>

\* len(x) is defined for a str only; for an int or None it raises TypeError
HasLen(x) == x.t = "str"

\* s.startswith(p)
StartsWith(s, p) == /\ Len(s) >= Len(p)
                    /\ SubSeq(s, 1, Len(p)) = p

\* p in s
Contains(s, p) == \E i \in 1..(Len(s) - Len(p) + 1) : SubSeq(s, i, i + Len(p) - 1) = p

(* ------------------------------ Dataset ------------------------------- *)

code_value_kws == <<"CodeValue", "LongCodeValue", "URNCodeValue">>

Keywords == {"CodeValue", "LongCodeValue", "URNCodeValue",
             "CodeMeaning", "CodingSchemeDesignator", "CodingSchemeVersion"}

\* Dataset(): an object with no elements
EmptyAttrs == [kw \in Keywords |-> Unset]

\* hasattr(ds, kw)
hasattr(ds, kw) == ds.attrs[kw].t # "unset"

\* getattr(ds, kw, default)
getattr(ds, kw, default) == IF hasattr(ds, kw) THEN ds.attrs[kw] ELSE default

\* ds.kw = val
setattr(ds, kw, val) == [ds EXCEPT !.attrs[kw] = val]

\* isinstance(x, Dataset): every heap object is a Dataset or a subclass of it
IsRef(x) == x.kind = "ref"

\* pydicom.sr.coding.Code, a named 4-tuple; it is no Dataset
Code(v, d, m, sv) ==
    [cls |-> "Code", value |-> v, scheme_designator |-> d, meaning |-> m, scheme_version |-> sv]

NoCode == Code(None, None, None, None)

Ref(i) == [kind |-> "ref", id |-> i, code |-> NoCode]

\* an argument passed by value: a Code tuple, or the arguments of a call
Val(c) == [kind |-> "val", id |-> 0, code |-> c]

(* ------------------------- CodedConcept.__init__ ---------------------- *)

Failure(e) == [status |-> e, obj |-> [cls |-> "none", attrs |-> EmptyAttrs]]

Success(o) == [status |-> "ok", obj |-> o]

\* the length test off by one: `>=` for `>`
CodeValueKeyword_ge(value) ==
    IF Len(value) >= MaxCodeValueLen
    THEN IF StartsWith(value, <<"u", "r", "n">>) \/ Contains(value, <<":", "/", "/">>)
         THEN "URNCodeValue"
         ELSE "LongCodeValue"
    ELSE "CodeValue"

\* the attribute the constructor stores the code value in
CodeValueKeyword(value) ==
    IF Len(value) > MaxCodeValueLen
    THEN IF StartsWith(value, <<"u", "r", "n">>) \/ Contains(value, <<":", "/", "/">>)
         THEN "URNCodeValue"
         ELSE "LongCodeValue"
    ELSE "CodeValue"

\* the limit off by one, either way
MeaningTooLong_ge(meaning) == Len(meaning) >= MaxMeaningLen

MeaningTooLong_gt_next(meaning) == Len(meaning) > MaxMeaningLen + 1

\* `if len(meaning) > 64: raise ValueError`
MeaningTooLong(meaning) == Len(meaning) > MaxMeaningLen

\* CodedConcept(value, scheme_designator, meaning, scheme_version)
CodedConcept_init(value, scheme_designator, meaning, scheme_version) ==
    IF ~HasLen(value) THEN Failure("TypeError")
    ELSE IF ~HasLen(meaning) THEN Failure("TypeError")
    ELSE IF MeaningTooLong(meaning.v) THEN Failure("ValueError")
    ELSE LET a0 == [cls |-> "CodedConcept", attrs |-> EmptyAttrs]
             a1 == setattr(a0, CodeValueKeyword(value.v), S(PyStr(value)))
             a2 == setattr(a1, "CodeMeaning", S(PyStr(meaning)))
             a3 == setattr(a2, "CodingSchemeDesignator", S(PyStr(scheme_designator)))
             a4 == IF scheme_version.t # "none"
                   THEN setattr(a3, "CodingSchemeVersion", S(PyStr(scheme_version)))
                   ELSE a3
         IN Success(a4)

(* ------------------------------ accessors ----------------------------- *)

value(self) ==
    getattr(self, "CodeValue",
            getattr(self, "LongCodeValue", getattr(self, "URNCodeValue", None)))

meaning(self) == self.attrs["CodeMeaning"]

scheme_designator(self) == self.attrs["CodingSchemeDesignator"]

scheme_version(self) == getattr(self, "CodingSchemeVersion", None)

(* -------------------------- equality and hash ------------------------- *)

\* other.value, other.scheme_designator for a Code or a CodedConcept
PropValue(other) == IF other.cls = "Code" THEN other.value ELSE value(other)

PropSchemeDesignator(other) ==
    IF other.cls = "Code" THEN other.scheme_designator ELSE scheme_designator(other)

\* pydicom's Code.__eq__(this, other), as the design states it: value and
\* scheme designator match
Code_eq(this, other) ==
    /\ this.value = PropValue(other)
    /\ this.scheme_designator = PropSchemeDesignator(other)

\* pydicom's Dataset.__eq__: structural equality of the elements
Dataset_eq(self, other) == other.cls # "Code" /\ self.attrs = other.attrs

\* a comparison that takes the meaning into account too
CodedConcept_eq_fieldwise(self, other) ==
    IF other.cls \in {"Code", "CodedConcept"}
    THEN /\ Code_eq(Code(value(self), scheme_designator(self),
                         meaning(self), scheme_version(self)), other)
         /\ meaning(self) = (IF other.cls = "Code" THEN other.meaning ELSE meaning(other))
    ELSE Dataset_eq(self, other)

\* CodedConcept.__eq__(self, other)
CodedConcept_eq(self, other) ==
    IF other.cls \in {"Code", "CodedConcept"}
    THEN Code_eq(Code(value(self), scheme_designator(self),
                      meaning(self), scheme_version(self)), other)
    ELSE Dataset_eq(self, other)

\* CodedConcept.__ne__(self, other)
CodedConcept_ne(self, other) == ~CodedConcept_eq(self, other)

\* CodedConcept.__hash__(self): the string handed to hash()
CodedConcept_hash(self) == scheme_designator(self).v \o value(self).v

(* ---------------------------- from_dataset ---------------------------- *)

Outcome(st, h, r) == [status |-> st, heap |-> h, ref |-> r]

\* sum(hasattr(dataset, kw) for kw in code_value_kws)
num_code_values(dataset) ==
    Cardinality({i \in 1..Len(code_value_kws) : hasattr(dataset, code_value_kws[i])})

\* the loop over the required keywords without CodingSchemeDesignator
MissingRequired_meaning_only(dataset) == ~hasattr(dataset, "CodeMeaning")

\* `for kw in ['CodeMeaning', 'CodingSchemeDesignator']: if not hasattr(dataset, kw)`
MissingRequired(dataset) ==
    \E kw \in {"CodeMeaning", "CodingSchemeDesignator"} : ~hasattr(dataset, kw)

\* the copy flag ignored, one way and the other
Adopt_in_place(h, id, copy) == Outcome("ok", [h EXCEPT ![id].cls = "CodedConcept"], id)

Adopt_always_copy(h, id, copy) ==
    Outcome("ok", Append(h, [h[id] EXCEPT !.cls = "CodedConcept"]), Len(h) + 1)

\* concept = deepcopy(dataset) / concept = dataset; concept.__class__ = cls
Adopt(h, id, copy) ==
    IF copy
    THEN Outcome("ok", Append(h, [h[id] EXCEPT !.cls = "CodedConcept"]), Len(h) + 1)
    ELSE Outcome("ok", [h EXCEPT ![id].cls = "CodedConcept"], id)

\* the count of code values tested with `== 0` for `!= 1`
from_dataset_at_least_one(h, dataset, copy) ==
    IF ~IsRef(dataset) THEN Outcome("TypeError", h, 0)
    ELSE IF num_code_values(h[dataset.id]) = 0 THEN Outcome("AttributeError", h, 0)
    ELSE IF MissingRequired(h[dataset.id]) THEN Outcome("AttributeError", h, 0)
    ELSE Adopt(h, dataset.id, copy)

\* CodedConcept.from_dataset(dataset, copy)
from_dataset(h, dataset, copy) ==
    IF ~IsRef(dataset) THEN Outcome("TypeError", h, 0)
    ELSE IF num_code_values(h[dataset.id]) # 1 THEN Outcome("AttributeError", h, 0)
    ELSE IF MissingRequired(h[dataset.id]) THEN Outcome("AttributeError", h, 0)
    ELSE Adopt(h, dataset.id, copy)

(* ------------------------------ from_code ----------------------------- *)

\* without the isinstance test: a concept is unpacked and built anew
from_code_always_new(h, code) ==
    LET c == IF IsRef(code)
             THEN Code(value(h[code.id]), scheme_designator(h[code.id]),
                       meaning(h[code.id]), scheme_version(h[code.id]))
             ELSE code.code
        made == CodedConcept_init(c.value, c.scheme_designator, c.meaning, c.scheme_version)
    IN IF made.status = "ok"
       THEN Outcome("ok", Append(h, made.obj), Len(h) + 1)
       ELSE Outcome(made.status, h, 0)

\* CodedConcept.from_code(code)
from_code(h, code) ==
    IF IsRef(code)
    THEN Outcome("ok", h, code.id)
    ELSE LET c == code.code
             made == CodedConcept_init(c.value, c.scheme_designator,
                                       c.meaning, c.scheme_version)
         IN IF made.status = "ok"
            THEN Outcome("ok", Append(h, made.obj), Len(h) + 1)
            ELSE Outcome(made.status, h, 0)

(* ------------------------------- inputs ------------------------------ *)

Lens(limit) == (limit - Margin)..(limit + Margin)

Prefixes == {<<>>, <<"u", "r">>, <<"u", "r", "n">>, <<"a", ":", "/", "/">>}

Str123 == <<"1", "2", "3">>

StrSCT == <<"S", "C", "T">>

StrDCM == <<"D", "C", "M">>

StrPain == <<"P", "a", "i", "n">>

StrTest == <<"T", "e", "s", "t">>

StrV1 == <<"v", "1">>

\* the shortest string that is too long for CodeValue, and for CodeMeaning
LongValue == Rep("x", MaxCodeValueLen + 1)

LongMeaning == Rep("m", MaxMeaningLen + 1)

\* arguments of the constructor around both length limits, of every shape,
\* and some that are no strings
RichValues ==
    {S(p \o Rep("x", n - Len(p))) : p \in Prefixes, n \in Lens(MaxCodeValueLen)}
        \cup {S(Str123), I(123)}

RichMeanings == {S(Rep("m", n)) : n \in Lens(MaxMeaningLen)} \cup {S(StrPain), I(7)}

RichDesignators == {S(StrSCT), I(99)}

RichVersions == {None, S(StrV1)}

\* a small set of arguments for the runs that build several objects
Values == {S(Str123)}

Designators == {S(StrSCT)}

Meanings == {S(StrPain), S(LongMeaning)}

Versions == {None, S(StrV1)}

Codes == {Code(v, d, m, sv) : v \in Values, d \in Designators, m \in Meanings, sv \in Versions}

\* the Codes a concept is compared with
OtherCodes ==
    {Code(v, d, m, sv) : v \in {S(Str123), S(LongValue)}, d \in {S(StrSCT), S(StrDCM)},
                         m \in {S(StrPain), S(StrTest)}, sv \in Versions}

Attrs(cv, lcv, ucv, cm, csd, csv) ==
    [kw \in Keywords |->
        CASE kw = "CodeValue" -> cv
          [] kw = "LongCodeValue" -> lcv
          [] kw = "URNCodeValue" -> ucv
          [] kw = "CodeMeaning" -> cm
          [] kw = "CodingSchemeDesignator" -> csd
          [] OTHER -> csv]

UrnValue == <<"u", "r", "n">> \o Rep("x", MaxCodeValueLen - 2)

\* datasets with any subset of the six elements
RichContainers ==
    {Attrs(cv, lcv, ucv, cm, csd, csv) :
        cv \in {Unset, S(Str123)}, lcv \in {Unset, S(LongValue)},
        ucv \in {Unset, S(UrnValue)}, cm \in {Unset, S(StrTest), S(LongMeaning)},
        csd \in {Unset, S(StrDCM)}, csv \in {Unset, S(StrV1)}}

Containers ==
    {Attrs(cv, lcv, Unset, cm, S(StrSCT), Unset) :
        cv \in {Unset, S(Str123)}, lcv \in {Unset, S(LongValue)},
        cm \in {Unset, S(StrTest), S(LongMeaning)}}

\* what from_dataset may be handed that is no Dataset
NonDatasets == {Code(S(Str123), S(StrSCT), S(StrPain), None)}

WriteInputs == {<<"LongCodeValue", S(LongValue)>>, <<"CodeMeaning", S(StrTest)>>}

(* ------------------------------- actions ------------------------------ *)

Result(op, st, r, a, c, k, x) ==
    [op |-> op, status |-> st, ref |-> r, arg |-> a, copy |-> c, kw |-> k, val |-> x]

Init ==
    /\ heap = <<>>
    /\ result = Result("none", "ok", 0, Val(NoCode), FALSE, "", None)

\* c = CodedConcept(v, d, m, sv)
Construct(Vs, Ds, Ms, SVs) ==
    \E v \in Vs, d \in Ds, m \in Ms, sv \in SVs :
        LET made == CodedConcept_init(v, d, m, sv)
            ok == made.status = "ok"
        IN /\ ok => Len(heap) < MaxObjects
           /\ heap' = IF ok THEN Append(heap, made.obj) ELSE heap
           /\ result' = Result("construct", made.status, IF ok THEN Len(heap) + 1 ELSE 0,
                               Val(Code(v, d, m, sv)), FALSE, "", None)

\* c = CodedConcept.from_code(x), x a Code or a CodedConcept
FromCode ==
    \E x \in {Val(c) : c \in Codes}
              \cup {Ref(i) : i \in {j \in DOMAIN heap : heap[j].cls = "CodedConcept"}} :
        LET out == from_code(heap, x)
        IN /\ Len(out.heap) <= MaxObjects
           /\ heap' = out.heap
           /\ result' = Result("from_code", out.status, out.ref, x, FALSE, "", None)

\* ds = Dataset() with its elements set
NewDataset(Cs) ==
    \E a \in Cs :
        /\ Len(heap) < MaxObjects
        /\ heap' = Append(heap, [cls |-> "Dataset", attrs |-> a])
        /\ result' = Result("Dataset", "ok", Len(heap) + 1, Val(NoCode), FALSE, "", None)

\* ds.kw = val, through any reference to the object
Write ==
    \E i \in DOMAIN heap, w \in WriteInputs :
        /\ heap' = [heap EXCEPT ![i] = setattr(heap[i], w[1], w[2])]
        /\ result' = Result("setattr", "ok", i, Ref(i), FALSE, w[1], w[2])

\* c = CodedConcept.from_dataset(x, copy)
FromDataset ==
    \E x \in {Ref(i) : i \in DOMAIN heap} \cup {Val(c) : c \in NonDatasets}, copy \in BOOLEAN :
        LET out == from_dataset(heap, x, copy)
        IN /\ Len(out.heap) <= MaxObjects
           /\ heap' = out.heap
           /\ result' = Result("from_dataset", out.status, out.ref, x, copy, "", None)

ConstructSmall == Construct(Values, Designators, Meanings, Versions)

NewDatasetSmall == NewDataset(Containers)

Next == ConstructSmall \/ FromCode \/ NewDatasetSmall \/ Write \/ FromDataset

Spec == Init /\ [][Next]_vars

\* one call of the constructor, over the rich arguments
ConstructOnce == heap = <<>> /\ Construct(RichValues, RichDesignators, RichMeanings, RichVersions)

SpecConstruct == Init /\ [][ConstructOnce]_vars

\* one dataset of any content, offered to from_dataset
NewDatasetOnce == heap = <<>> /\ NewDataset(RichContainers)

NextAdopt == NewDatasetOnce \/ FromDataset

SpecAdopt == Init /\ [][NextAdopt]_vars

(* ------------------------------- claims ------------------------------ *)

Concepts == {i \in DOMAIN heap : heap[i].cls = "CodedConcept"}

\* the code-value elements a dataset holds
Populated(ds) == {kw \in {"CodeValue", "LongCodeValue", "URNCodeValue"} : ds.attrs[kw].t = "str"}

Constructed == result.op = "construct" /\ result.status = "ok"

\* C1: a constructor call with a string value stores it in exactly one of
\* CodeValue (length <= 16), URNCodeValue (length > 16, starts with "urn" or
\* contains "://") and LongCodeValue (length > 16 otherwise), and value()
\* returns the string.
C1_VariantByLengthAndShape ==
    (Constructed /\ result.arg.code.value.t = "str") =>
        LET v == result.arg.code.value.v
            c == heap[result.ref]
            urn == \/ (Len(v) >= 3 /\ v[1] = "u" /\ v[2] = "r" /\ v[3] = "n")
                   \/ \E i \in 1..(Len(v) - 2) : v[i] = ":" /\ v[i + 1] = "/" /\ v[i + 2] = "/"
        IN /\ Populated(c) = IF Len(v) <= 16 THEN {"CodeValue"}
                              ELSE IF urn THEN {"URNCodeValue"} ELSE {"LongCodeValue"}
           /\ value(c) = S(v)

C1_Witness ==
    /\ Constructed
    /\ Len(result.arg.code.value.v) > 16
    /\ ~StartsWith(result.arg.code.value.v, <<"u", "r", "n">>)
    /\ Contains(result.arg.code.value.v, <<":", "/", "/">>)
    /\ Populated(heap[result.ref]) = {"URNCodeValue"}

\* C2: with string arguments the constructor fails exactly when the meaning
\* is longer than 64 characters, with the validation error, and a failed
\* call leaves no object behind.
C2_FailsIffMeaningTooLong ==
    (/\ result.op = "construct"
     /\ result.arg.code.value.t = "str"
     /\ result.arg.code.meaning.t = "str") =>
        /\ result.status # "ok" <=> Len(result.arg.code.meaning.v) > 64
        /\ result.status \in {"ok", "ValueError"}
        /\ result.status # "ok" => result.ref = 0 /\ heap = <<>>
        /\ result.status = "ok" => result.ref \in Concepts

C2_Witness ==
    /\ result.op = "construct"
    /\ result.status = "ValueError"
    /\ Len(result.arg.code.meaning.v) = 65
    /\ heap = <<>>

\* C10: a value that is a number is turned into a string before the length
\* and shape checks, so construction succeeds and value() is its decimal form.
C10_CoercesBeforeChecks ==
    (/\ result.op = "construct"
     /\ result.arg.code.value.t = "int"
     /\ result.arg.code.meaning.t = "str"
     /\ Len(result.arg.code.meaning.v) <= 64) =>
        /\ result.status = "ok"
        /\ value(heap[result.ref]) = S(PyStr(result.arg.code.value))

C4_FromDatasetOutcome ==
    result.op = "from_dataset" =>
        IF result.arg.kind # "ref" THEN result.status = "TypeError"
        ELSE LET ds == heap[result.arg.id]
                 n == (IF ds.attrs["CodeValue"].t = "unset" THEN 0 ELSE 1)
                      + (IF ds.attrs["LongCodeValue"].t = "unset" THEN 0 ELSE 1)
                      + (IF ds.attrs["URNCodeValue"].t = "unset" THEN 0 ELSE 1)
                 bad == \/ n # 1
                        \/ ds.attrs["CodeMeaning"].t = "unset"
                        \/ ds.attrs["CodingSchemeDesignator"].t = "unset"
             IN result.status = IF bad THEN "AttributeError" ELSE "ok"

C4_Witness ==
    /\ result.op = "from_dataset"
    /\ result.status = "AttributeError"
    /\ result.arg.kind = "ref"
    /\ Cardinality(Populated(heap[result.arg.id])) = 2
    /\ hasattr(heap[result.arg.id], "CodeMeaning")
    /\ hasattr(heap[result.arg.id], "CodingSchemeDesignator")

\* the accessors of concept t read what dataset c holds
ReadsAs(t, c) ==
    /\ Populated(c) = {"CodeValue"} => value(t) = c.attrs["CodeValue"]
    /\ Populated(c) = {"LongCodeValue"} => value(t) = c.attrs["LongCodeValue"]
    /\ Populated(c) = {"URNCodeValue"} => value(t) = c.attrs["URNCodeValue"]
    /\ meaning(t) = c.attrs["CodeMeaning"]
    /\ scheme_designator(t) = c.attrs["CodingSchemeDesignator"]
    /\ scheme_version(t) = IF c.attrs["CodingSchemeVersion"].t = "unset" THEN None
                           ELSE c.attrs["CodingSchemeVersion"]

\* C5: from_dataset(c, copy=True) returns a new CodedConcept whose accessors
\* read what c holds and leaves c as it was, class included; a later write
\* through one reference changes no other object.
C5_CopyLeavesSourceIntact ==
    [][
        /\ (result'.op = "from_dataset" /\ result'.copy /\ result'.status = "ok") =>
             /\ result'.ref \notin DOMAIN heap
             /\ result'.ref \in DOMAIN heap'
             /\ \A i \in DOMAIN heap : heap'[i] = heap[i]
             /\ heap'[result'.ref].cls = "CodedConcept"
             /\ ReadsAs(heap'[result'.ref], heap[result'.arg.id])
        /\ result'.op = "setattr" =>
             (\A i \in DOMAIN heap \ {result'.arg.id} : heap'[i] = heap[i])
      ]_vars

C5_Witness ==
    /\ result.op = "from_dataset"
    /\ result.copy
    /\ result.status = "ok"
    /\ heap[result.arg.id].cls = "Dataset"
    /\ heap[result.ref].cls = "CodedConcept"
    /\ heap[result.ref].attrs = heap[result.arg.id].attrs

\* C6: from_dataset(c, copy=False) returns c itself, retagged as a
\* CodedConcept with its elements as they were and no object created; a
\* write through any reference to a concept is read back by its accessors.
C6_InPlaceSharesStorage ==
    [][
        /\ (result'.op = "from_dataset" /\ ~result'.copy /\ result'.status = "ok") =>
             /\ result'.ref = result'.arg.id
             /\ DOMAIN heap' = DOMAIN heap
             /\ heap'[result'.ref].cls = "CodedConcept"
             /\ heap'[result'.ref].attrs = heap[result'.ref].attrs
             /\ \A i \in DOMAIN heap \ {result'.ref} : heap'[i] = heap[i]
        /\ (result'.op = "setattr" /\ result'.ref \in Concepts) =>
             /\ heap'[result'.ref].cls = "CodedConcept"
             /\ heap'[result'.ref].attrs[result'.kw] = result'.val
             /\ (result'.kw = "CodeMeaning" => meaning(heap'[result'.ref]) = result'.val)
             /\ \A kw \in Keywords \ {result'.kw} :
                   heap'[result'.ref].attrs[kw] = heap[result'.ref].attrs[kw]
      ]_vars

C6_Witness ==
    /\ result.op = "from_dataset"
    /\ ~result.copy
    /\ result.status = "ok"
    /\ result.ref = result.arg.id
    /\ heap[result.ref].cls = "CodedConcept"
    /\ Len(heap) = 1

\* C7: from_code of a CodedConcept returns that object and changes nothing;
\* from_code of a Code makes a new concept with the Code's four fields, and
\* fails with the validation error when the Code's meaning is longer than 64.
C7_FromCode ==
    [][result'.op = "from_code" =>
         IF result'.arg.kind = "ref"
         THEN /\ result'.status = "ok"
              /\ result'.ref = result'.arg.id
              /\ heap' = heap
         ELSE LET c == result'.arg.code
              IN IF Len(c.meaning.v) > 64
                 THEN result'.status = "ValueError" /\ result'.ref = 0 /\ heap' = heap
                 ELSE /\ result'.status = "ok"
                      /\ result'.ref = Len(heap) + 1
                      /\ DOMAIN heap' = 1..(Len(heap) + 1)
                      /\ \A i \in DOMAIN heap : heap'[i] = heap[i]
                      /\ heap'[result'.ref].cls = "CodedConcept"
                      /\ value(heap'[result'.ref]) = c.value
                      /\ scheme_designator(heap'[result'.ref]) = c.scheme_designator
                      /\ meaning(heap'[result'.ref]) = c.meaning
                      /\ scheme_version(heap'[result'.ref]) = c.scheme_version
      ]_vars

C7_Witness ==
    /\ result.op = "from_code"
    /\ result.arg.kind = "ref"
    /\ result.ref = result.arg.id
    /\ result.ref \in Concepts

\* the last call made a new CodedConcept and validated its arguments
Validated ==
    /\ result.status = "ok"
    /\ \/ result.op = "construct"
       \/ result.op = "from_code" /\ result.arg.kind = "val"

\* C8 as claimed: every CodedConcept has a meaning of at most 64 characters.
C8_EveryMeaningShort ==
    \A c \in Concepts : Len(meaning(heap[c]).v) <= 64

\* C8: a CodedConcept made by the constructor, or by from_code from a Code,
\* has a meaning of at most 64 characters when it is made.
C8_ValidatedMeaningShort ==
    Validated => Len(meaning(heap[result.ref]).v) <= 64

C8_Witness ==
    /\ result.op = "from_code"
    /\ Validated
    /\ \E c \in Concepts : c # result.ref /\ Len(meaning(heap[c]).v) > 64

\* C9 as claimed: every CodedConcept has exactly one code-value element.
C9_ExactlyOneAlways ==
    \A c \in Concepts : Cardinality(Populated(heap[c])) = 1

\* C9: every CodedConcept has at least one code-value element, so value()
\* never returns None, and has exactly one when the constructor, from_code
\* from a Code, or from_dataset has just made it.
C9_OneWhenMadeNeverNone ==
    /\ \A c \in Concepts : Cardinality(Populated(heap[c])) >= 1 /\ value(heap[c]) # None
    /\ (Validated \/ (result.op = "from_dataset" /\ result.status = "ok")) =>
           Cardinality(Populated(heap[result.ref])) = 1

C9_Witness ==
    /\ result.op = "setattr"
    /\ result.ref \in Concepts
    /\ Cardinality(Populated(heap[result.ref])) = 2
    /\ value(heap[result.ref]) = S(Str123)

====
